---- MODULE Spec2Model ----
(***************************************************************************)
(* Model of the storage survey of adb_utils.py: run_adb_command,           *)
(* get_storage_details, get_top_large_folders and the storage part of      *)
(* list_connected_devices_and_details.                                     *)
(*                                                                         *)
(* Text handled by the program (command output, paths, size strings) is    *)
(* modelled as a sequence of one-character strings, so that strip, split,  *)
(* int() and float() are computed character by character as Python does.   *)
(* Diagnostics that the program only prints are plain strings.             *)
(***************************************************************************)
EXTENDS Integers, Sequences, FiniteSets, TLC

VARIABLES
    pc,                  \* position of the single thread of control
    cmds,                \* remote commands issued so far, in order
    launch,              \* run_adb_command: the environment of the launch
    outcome,             \* run_adb_command: what subprocess.run did
    result,              \* run_adb_command: the returned triple
    storages,            \* get_storage_details: list of (name, path)
    success_df,          \* get_storage_details: success flag of df -k
    stdout_df,           \* get_storage_details: raw stdout of df -k
    df_lines,            \* get_storage_details: lines scanned
    vol_idx,             \* get_storage_details: loop position in storages
    all_storage_details, \* get_storage_details: result list
    path,                \* get_top_large_folders: argument
    count,               \* get_top_large_folders: argument
    stdout_ls,           \* get_top_large_folders: raw listing output
    potential_items,     \* get_top_large_folders: child paths to measure
    item_idx,            \* get_top_large_folders: loop position
    folder_sizes_raw,    \* get_top_large_folders: (size_bytes, display) list
    top_result,          \* get_top_large_folders: returned list
    success_ls,          \* get_top_large_folders: success flag of ls
    du_seen,             \* history: what each du call returned, in order
    survey_pc,           \* list_connected_devices_and_details: position
    consolidated_storage_info,  \* survey: the dict, as (key, store) in insertion order
    internal_storage_0_found,   \* survey: flag of the consolidation loop
    store_idx,           \* survey: loop position of the consolidation
    show_idx             \* survey: loop position of the display

vars == <<pc, cmds, launch, outcome, result, storages, success_df, stdout_df,
          df_lines, vol_idx, all_storage_details, path, count, stdout_ls,
          potential_items, item_idx, folder_sizes_raw, top_result,
          success_ls, du_seen, survey_pc, consolidated_storage_info,
          internal_storage_0_found, store_idx, show_idx>>

runVars == <<launch, outcome, result>>
dfVars == <<storages, success_df, stdout_df, df_lines, vol_idx, all_storage_details>>
topVars == <<path, count, stdout_ls, potential_items, item_idx, folder_sizes_raw,
            top_result, success_ls, du_seen>>
surveyVars == <<survey_pc, consolidated_storage_info, internal_storage_0_found,
               store_idx, show_idx>>

-----------------------------------------------------------------------------
(* Text primitives (Python str methods used by the program).               *)

Whitespace == {" ", "\t", "\n", "\r"}
Digits == {"0", "1", "2", "3", "4", "5", "6", "7", "8", "9"}
UpperLetters == {"A", "B", "C", "D", "G", "K", "M", "T", "X"}
LowerLetters == {"a", "b", "c", "d", "g", "k", "m", "t", "x"}

\* str.isalpha() on one character
IsAlpha(c) == c \in UpperLetters \cup LowerLetters

\* str.upper() on one character
Upper(c) ==
    CASE c = "a" -> "A" [] c = "b" -> "B" [] c = "c" -> "C" [] c = "d" -> "D"
      [] c = "g" -> "G" [] c = "k" -> "K" [] c = "m" -> "M" [] c = "t" -> "T"
      [] c = "x" -> "X" [] OTHER -> c

DigitVal(c) ==
    CASE c = "0" -> 0 [] c = "1" -> 1 [] c = "2" -> 2 [] c = "3" -> 3
      [] c = "4" -> 4 [] c = "5" -> 5 [] c = "6" -> 6 [] c = "7" -> 7
      [] c = "8" -> 8 [] c = "9" -> 9

\* The k-th smallest element of a finite set of integers.
Kth(S, k) == CHOOSE i \in S : Cardinality({j \in S : j < i}) = k - 1

\* str.strip(): the text without its leading and trailing whitespace.
Strip(s) ==
    LET lead == {i \in 1..Len(s) : \A j \in 1..i : s[j] \in Whitespace}
        trail == {i \in 1..Len(s) : \A j \in i..Len(s) : s[j] \in Whitespace}
    IN  IF Cardinality(lead) = Len(s) THEN <<>>
        ELSE SubSeq(s, Cardinality(lead) + 1, Len(s) - Cardinality(trail))

\* str.split(sep) for a one-character separator: the fields between the
\* separators, empty fields kept.
SplitOn(s, sep) ==
    LET at == {i \in 1..Len(s) : s[i] = sep}
        n == Cardinality(at)
    IN  [k \in 1..(n + 1) |->
            SubSeq(s, IF k = 1 THEN 1 ELSE Kth(at, k - 1) + 1,
                      IF k = n + 1 THEN Len(s) ELSE Kth(at, k) - 1)]

\* str.split() with no argument: the maximal runs of characters that are not
\* whitespace.
SplitWs(s) ==
    LET starts == {i \in 1..Len(s) :
                      s[i] \notin Whitespace /\ (i = 1 \/ s[i - 1] \in Whitespace)}
        ends == {i \in 1..Len(s) :
                    s[i] \notin Whitespace /\ (i = Len(s) \/ s[i + 1] \in Whitespace)}
    IN  [k \in 1..Cardinality(starts) |-> SubSeq(s, Kth(starts, k), Kth(ends, k))]

\* str.splitlines(): "\n", "\r" and "\r\n" end a line; text after the last
\* line end is a line of its own, and a final line end adds no empty line.
SplitLines(s) ==
    LET ends == {i \in 1..Len(s) :
                    \/ s[i] = "\n"
                    \/ s[i] = "\r" /\ ~(i < Len(s) /\ s[i + 1] = "\n")}
        n == Cardinality(ends)
        last == IF n = 0 THEN 0 ELSE Kth(ends, n)
        from(k) == IF k = 1 THEN 1 ELSE Kth(ends, k - 1) + 1
        upto(k) ==
            IF k = n + 1 THEN Len(s)
            ELSE LET e == Kth(ends, k)
                 IN  IF s[e] = "\n" /\ e - 1 >= from(k) /\ s[e - 1] = "\r"
                     THEN e - 2
                     ELSE e - 1
    IN  [k \in 1..(IF last < Len(s) THEN n + 1 ELSE n) |-> SubSeq(s, from(k), upto(k))]

\* sep.join(parts)
RECURSIVE Join(_, _)
Join(parts, sep) ==
    IF parts = <<>> THEN <<>>
    ELSE IF Len(parts) = 1 THEN parts[1]
    ELSE parts[1] \o sep \o Join(Tail(parts), sep)

AllDigits(s) == \A i \in 1..Len(s) : s[i] \in Digits

RECURSIVE DigitsVal(_)
DigitsVal(s) ==
    IF s = <<>> THEN 0
    ELSE 10 * DigitsVal(SubSeq(s, 1, Len(s) - 1)) + DigitVal(s[Len(s)])

\* int(tok) succeeds (no ValueError).  A token comes from split(), so it
\* holds no whitespace; a sign is accepted, anything else must be a digit.
IntParses(tok) ==
    LET body == IF tok # <<>> /\ Head(tok) \in {"+", "-"} THEN Tail(tok) ELSE tok
    IN  body # <<>> /\ AllDigits(body)

IntOf(tok) ==
    IF Head(tok) = "-" THEN 0 - DigitsVal(Tail(tok))
    ELSE IF Head(tok) = "+" THEN DigitsVal(Tail(tok))
    ELSE DigitsVal(tok)

-----------------------------------------------------------------------------
(* run_adb_command                                                         *)

AdbNotFoundMsg == "Error: 'adb' command not found. Please ensure ADB is installed and added to your system's PATH."
UnexpectedMsg == "An unexpected error occurred: "
ShellSaysNotFound == "/bin/sh: 1: adb: not found"

\* The environment of one launch: whether the shell that shell=True starts
\* can be started, whether starting it fails for another reason, whether adb
\* is on the PATH, and what adb itself does (exit status, stdout, stderr).
LaunchEnv(shell, fault, adb, code, out, err) ==
    [shell |-> shell, fault |-> fault, adb |-> adb, code |-> code, out |-> out, err |-> err]

\* subprocess.run(command, shell=True, capture_output=True, text=True,
\* check=True): the command line is handed to the shell.  Only a shell that
\* cannot be started raises FileNotFoundError; a missing adb is reported by
\* the shell as a non-zero exit status, which check=True turns into
\* CalledProcessError like any other non-zero status (127 from the shell).
SubprocessRun(env) ==
    IF ~env.shell THEN
        [kind |-> "FileNotFoundError", returncode |-> 0, stdout |-> <<>>, stderr |-> ""]
    ELSE IF env.fault THEN
        [kind |-> "Exception", returncode |-> 0, stdout |-> <<>>, stderr |-> "OSError"]
    ELSE IF ~env.adb THEN
        [kind |-> "CalledProcessError", returncode |-> 127,
         stdout |-> <<>>, stderr |-> ShellSaysNotFound]
    ELSE IF env.code # 0 THEN
        [kind |-> "CalledProcessError", returncode |-> env.code,
         stdout |-> env.out, stderr |-> env.err]
    ELSE
        [kind |-> "Completed", returncode |-> 0, stdout |-> env.out, stderr |-> env.err]

\* The try/except of run_adb_command applied to what subprocess.run did.
ReturnOf(o) ==
    CASE o.kind = "Completed" ->
            [success |-> TRUE, stdout |-> o.stdout, stderr |-> o.stderr]
      [] o.kind = "CalledProcessError" ->
            [success |-> FALSE, stdout |-> o.stdout, stderr |-> o.stderr]
      [] o.kind = "FileNotFoundError" ->
            [success |-> FALSE, stdout |-> <<>>, stderr |-> AdbNotFoundMsg]
      [] OTHER ->
            [success |-> FALSE, stdout |-> <<>>, stderr |-> UnexpectedMsg \o o.stderr]

run_adb_command(env) == ReturnOf(SubprocessRun(env))

NoLaunch == LaunchEnv(TRUE, FALSE, TRUE, 0, <<>>, "")
NoOutcome == [kind |-> "none", returncode |-> 0, stdout |-> <<>>, stderr |-> ""]
NoResult == [success |-> FALSE, stdout |-> <<>>, stderr |-> ""]

\* A command as logged in cmds: the tool and its quoted argument.
Cmd(tool, arg) == [tool |-> tool, arg |-> arg]

CodeBound == 2
RunOuts == {<<>>, <<"o", "k", "\n">>}
RunErrs == {"", "error: no devices/emulators found"}
RunTools == {"adb kill-server", "adb start-server"}

\* Every environment a launch can meet.
LaunchEnvs(outs, errs) ==
    {LaunchEnv(sh, f, a, c, o, e) :
        sh \in BOOLEAN, f \in BOOLEAN, a \in BOOLEAN, c \in 0..CodeBound,
        o \in outs, e \in errs}

InitCommon ==
    /\ cmds = <<>>
    /\ launch = NoLaunch
    /\ outcome = NoOutcome
    /\ result = NoResult
    /\ storages = <<>>
    /\ success_df = FALSE
    /\ stdout_df = <<>>
    /\ df_lines = <<>>
    /\ vol_idx = 0
    /\ all_storage_details = <<>>
    /\ path = <<>>
    /\ count = 0
    /\ stdout_ls = <<>>
    /\ potential_items = <<>>
    /\ item_idx = 0
    /\ folder_sizes_raw = <<>>
    /\ top_result = <<>>
    /\ success_ls = FALSE
    /\ du_seen = <<>>
    /\ consolidated_storage_info = <<>>
    /\ internal_storage_0_found = FALSE
    /\ store_idx = 0
    /\ show_idx = 0

InitRun == pc = "run_call" /\ survey_pc = "none" /\ InitCommon

\* One call of run_adb_command (as made by kill_and_restart_adb_server).
RunAdbCommand ==
    /\ pc = "run_call"
    /\ \E tool \in RunTools, env \in LaunchEnvs(RunOuts, RunErrs) :
          /\ cmds' = Append(cmds, Cmd(tool, <<>>))
          /\ launch' = env
          /\ outcome' = SubprocessRun(env)
          /\ result' = run_adb_command(env)
    /\ pc' = "run_done"
    /\ UNCHANGED <<dfVars, topVars, surveyVars>>

NextRun == RunAdbCommand

SpecRun == InitRun /\ [][NextRun]_vars

\* C10: every outcome of the launch maps to a triple: success is true
\* exactly when the command ran and left with status zero; a non-zero status
\* gives success = false with the command's own stdout and stderr; an
\* execution tool that is not available gives success = false with the fixed
\* 'adb command not found' diagnostic; any other exception gives
\* success = false with the generic diagnostic.
C10_NoFaultEscapes ==
    pc = "run_done" =>
        LET ran == launch.shell /\ ~launch.fault /\ launch.adb
            unavailable == ~launch.shell \/ (~launch.fault /\ ~launch.adb)
        IN  /\ result.success <=> (ran /\ launch.code = 0)
            /\ (ran /\ launch.code # 0) =>
                  result = [success |-> FALSE, stdout |-> launch.out, stderr |-> launch.err]
            /\ unavailable =>
                  result = [success |-> FALSE, stdout |-> <<>>, stderr |-> AdbNotFoundMsg]
            /\ (launch.shell /\ launch.fault) =>
                  /\ ~result.success
                  /\ result.stdout = <<>>
                  /\ result.stderr = UnexpectedMsg \o "OSError"

-----------------------------------------------------------------------------
(* get_storage_details                                                     *)

EMULATED_0 == <<"/", "s", "t", "o", "r", "a", "g", "e", "/", "e", "m", "u", "l", "a", "t", "e", "d", "/", "0">>
EMULATED == <<"/", "s", "t", "o", "r", "a", "g", "e", "/", "e", "m", "u", "l", "a", "t", "e", "d">>
SDCARD == <<"/", "s", "d", "c", "a", "r", "d">>
NA == <<"N", "/", "A">>

\* A removable volume, outside the internal-storage spellings.
EXT_CARD == <<"/", "s", "t", "o", "r", "a", "g", "e", "/", "A", "B", "C", "D">>

is_internal_canonical_path(p) == p = EMULATED_0 \/ p = EMULATED \/ p = SDCARD

\* The mount spellings without /storage/emulated.
MutIsDfInternalMount(mount_point) == mount_point = EMULATED_0 \/ mount_point = SDCARD

is_df_internal_mount(mount_point) ==
    mount_point = EMULATED_0 \/ mount_point = EMULATED \/ mount_point = SDCARD

\* The condition of line 137.
LineMatches(p, mount_point) ==
    mount_point = p \/ (is_internal_canonical_path(p) /\ is_df_internal_mount(mount_point))

\* Round num/den (num >= 0, den > 0) to the nearest integer, ties to even,
\* as the "f" format does on an exactly representable value.
RoundHalfEven(num, den) ==
    LET q == num \div den
        r == num % den
    IN  IF 2 * r < den THEN q
        ELSE IF 2 * r > den THEN q + 1
        ELSE IF q % 2 = 0 THEN q ELSE q + 1

RECURSIVE DigitsOf(_)
DigitsOf(n) ==
    LET d == <<"0", "1", "2", "3", "4", "5", "6", "7", "8", "9">>[(n % 10) + 1]
    IN  IF n < 10 THEN <<d>> ELSE Append(DigitsOf(n \div 10), d)

\* f"{x:.2f}" for x given in hundredths (x >= 0).
Fixed2(hundredths) ==
    LET frac == hundredths % 100
    IN  DigitsOf(hundredths \div 100) \o <<".">> \o DigitsOf(frac \div 10) \o DigitsOf(frac % 10)

KbPerGb == 1048576

\* f"{kblocks / (1024**2):.2f} GB"; the quotient by a power of two is exact.
FormatGb(kblocks) ==
    Fixed2((kblocks \div KbPerGb) * 100 + RoundHalfEven((kblocks % KbPerGb) * 100, KbPerGb))
        \o <<" ", "G", "B">>

\* A guard that leaves the percentage of an empty volume unset.
MutFormatPercent(used_kblocks, total_kblocks) ==
    IF total_kblocks > 0
    THEN Fixed2(RoundHalfEven(used_kblocks * 10000, total_kblocks)) \o <<"%">>
    ELSE NA

\* f"{(used / total) * 100 if total > 0 else 0 :.2f}%"
FormatPercent(used_kblocks, total_kblocks) ==
    (IF total_kblocks > 0
     THEN Fixed2(RoundHalfEven(used_kblocks * 10000, total_kblocks))
     ELSE Fixed2(0)) \o <<"%">>

NewDetails(name, p) ==
    [name |-> name, path |-> p, total_gb |-> NA, used_gb |-> NA,
     available_gb |-> NA, percentage_used |-> NA]

\* The three int() calls of the try block succeed.
ColumnsParse(parts) == IntParses(parts[2]) /\ IntParses(parts[3]) /\ IntParses(parts[4])

\* Lines 139-150: the fields set from one df line.
Populate(details, parts) ==
    LET total_kblocks == IntOf(parts[2])
        used_kblocks == IntOf(parts[3])
        available_kblocks == IntOf(parts[4])
    IN  [details EXCEPT
            !.total_gb = FormatGb(total_kblocks),
            !.used_gb = FormatGb(used_kblocks),
            !.available_gb = FormatGb(available_kblocks),
            !.percentage_used = FormatPercent(used_kblocks, total_kblocks)]

\* A scan that ends at the first matching line whose columns do not parse.
RECURSIVE MutScanDfLines(_, _, _)
MutScanDfLines(p, lines, details) ==
    IF lines = <<>> THEN details
    ELSE LET parts == SplitWs(Head(lines))
         IN  IF Len(parts) >= 6 /\ LineMatches(p, parts[Len(parts)])
             THEN IF ColumnsParse(parts) THEN Populate(details, parts) ELSE details
             ELSE MutScanDfLines(p, Tail(lines), details)

\* The inner loop of lines 117-155: the first line with at least six tokens
\* whose mount point matches and whose columns parse sets the fields and ends
\* the scan; every other line is passed over.
RECURSIVE ScanDfLines(_, _, _)
ScanDfLines(p, lines, details) ==
    IF lines = <<>> THEN details
    ELSE LET parts == SplitWs(Head(lines))
         IN  IF Len(parts) >= 6 /\ LineMatches(p, parts[Len(parts)]) /\ ColumnsParse(parts)
             THEN Populate(details, parts)
             ELSE ScanDfLines(p, Tail(lines), details)

\* Lines a df -k report is made of here: a line cut short, valid lines for
\* each spelling of the internal volume, a line with a column that is no
\* integer, and a removable volume of size zero.
Line(tokens) == Join(tokens, <<" ">>)

DfShort == Line(<<<<"d">>, <<"1", "0", "0">>, <<"4", "0">>, SDCARD>>)
DfSdcard ==
    Line(<<<<"d">>, <<"1", "0", "4", "8", "5", "7", "6">>, <<"1", "3", "1", "0", "7", "2">>,
           <<"9", "1", "7", "5", "0", "4">>, <<"1", "3", "%">>, SDCARD>>)
DfEmulated ==
    Line(<<<<"d">>, <<"2", "0", "9", "7", "1", "5", "2">>, <<"1", "0", "4", "8", "5", "8">>,
           <<"1", "9", "9", "2", "2", "9", "4">>, <<"5", "%">>, EMULATED>>)
DfEmulated0 ==
    Line(<<<<"d">>, <<"4", "1", "9", "4", "3", "0", "4">>, <<"1", "0", "4", "8", "5", "7">>,
           <<"4", "0", "8", "9", "4", "4", "7">>, <<"3", "%">>, EMULATED_0>>)
DfBadColumn ==
    Line(<<<<"d">>, <<"1", "0", "4", "8", "5", "7", "6">>, <<"1", "3", "1", "0", "7", "2">>,
           <<"-">>, <<"1", "3", "%">>, SDCARD>>)
DfZero == Line(<<<<"t">>, <<"0">>, <<"0">>, <<"0">>, <<"0", "%">>, EXT_CARD>>)

DfLineSet == {DfShort, DfSdcard, DfEmulated, DfEmulated0, DfBadColumn, DfZero}

MaxDfLines == 3
MaxVolumes == 2

SeqsUpTo(S, n) == UNION {[1..k -> S] : k \in 0..n}

\* The text of a report: its lines, each ended by a newline.
Report(lines) == IF lines = <<>> THEN <<>> ELSE Join(lines, <<"\n">>) \o <<"\n">>

DfOutputs == {Report(ls) : ls \in SeqsUpTo(DfLineSet, MaxDfLines)}

\* What a failing df leaves on stdout: nothing, or a report all the same.
DfFailOutputs == {<<>>, Report(<<DfSdcard, DfZero>>)}

DfEnvs ==
    {LaunchEnv(TRUE, FALSE, TRUE, 0, o, "") : o \in DfOutputs}
    \cup {LaunchEnv(TRUE, FALSE, TRUE, 1, o, "error: device offline") : o \in DfFailOutputs}
    \cup {LaunchEnv(FALSE, FALSE, TRUE, 0, <<>>, ""),
          LaunchEnv(TRUE, TRUE, TRUE, 0, <<>>, ""),
          LaunchEnv(TRUE, FALSE, FALSE, 0, <<>>, "")}

\* What get_device_storages (adb_Browse, outside this repository's sources
\* here) can hand over: display names with paths.
Candidates ==
    {<<"Internal Storage", EMULATED_0>>, <<"Internal Storage", EMULATED>>,
     <<"Internal Storage", SDCARD>>, <<"SD Card", EXT_CARD>>}

\* The lists handed over: each storage location is listed once.
StorageLists ==
    {st \in SeqsUpTo(Candidates, MaxVolumes) :
        \A i, j \in 1..Len(st) : i # j => st[i] # st[j]}

InitStorage == pc = "gsd_call" /\ survey_pc = "none" /\ InitCommon

\* Lines 88-94: the candidates are fetched; none means an empty result.
FetchStoragesOf(lists) ==
    /\ pc = "gsd_call"
    /\ \E st \in lists :
          /\ storages' = st
          /\ pc' = IF st = <<>> THEN "gsd_done" ELSE "gsd_df"
    /\ all_storage_details' = <<>>
    /\ UNCHANGED <<cmds, runVars, success_df, stdout_df, df_lines, vol_idx, topVars, surveyVars>>

FetchStorages == FetchStoragesOf(StorageLists)

\* Lines kept whatever the success flag says.
MutDfLinesOf(res) == SplitOn(Strip(res.stdout), "\n")

\* Lines 98-103: the lines kept from the df call.
DfLinesOf(res) == IF res.success THEN SplitOn(Strip(res.stdout), "\n") ELSE <<>>

\* Lines 97-103: the one df -k call.
RunDfIn(envs) ==
    /\ pc = "gsd_df"
    /\ \E env \in envs :
          LET res == run_adb_command(env)
          IN  /\ launch' = env
              /\ outcome' = SubprocessRun(env)
              /\ result' = res
              /\ success_df' = res.success
              /\ stdout_df' = res.stdout
              /\ df_lines' = DfLinesOf(res)
    /\ cmds' = Append(cmds, Cmd("adb shell df -k", <<>>))
    /\ vol_idx' = 0
    /\ pc' = "gsd_loop"
    /\ UNCHANGED <<storages, all_storage_details, topVars, surveyVars>>

RunDf == RunDfIn(DfEnvs)

\* Lines 105-161: one iteration of the loop over storages; after the last
\* one the list is returned.
ScanStorage ==
    /\ pc = "gsd_loop"
    /\ vol_idx < Len(storages)
    /\ LET name == storages[vol_idx + 1][1]
           p == storages[vol_idx + 1][2]
       IN  all_storage_details' =
               Append(all_storage_details, ScanDfLines(p, df_lines, NewDetails(name, p)))
    /\ vol_idx' = vol_idx + 1
    /\ pc' = IF vol_idx + 1 = Len(storages) THEN "gsd_done" ELSE "gsd_loop"
    /\ UNCHANGED <<cmds, runVars, storages, success_df, stdout_df, df_lines, topVars, surveyVars>>

NextStorage == FetchStorages \/ RunDf \/ ScanStorage

SpecStorage == InitStorage /\ [][NextStorage]_vars

-----------------------------------------------------------------------------
(* Properties of get_storage_details                                       *)

AliasSet == {EMULATED_0, EMULATED, SDCARD}

\* The lines of the df output as the report gives them, each as its tokens.
OutputTokens ==
    LET ls == SplitOn(Strip(stdout_df), "\n")
    IN  [k \in 1..Len(ls) |-> SplitWs(ls[k])]

IsInteger(tok) == tok # <<>> /\ \A i \in 1..Len(tok) : tok[i] \in Digits

\* A valid line: at least six tokens, integer total/used/available columns.
ValidLine(t) == Len(t) >= 6 /\ IsInteger(t[2]) /\ IsInteger(t[3]) /\ IsInteger(t[4])

MountOf(t) == t[Len(t)]

ExactFor(p, t) == ValidLine(t) /\ MountOf(t) = p
AliasOnlyFor(p, t) == ValidLine(t) /\ MountOf(t) # p /\ p \in AliasSet /\ MountOf(t) \in AliasSet
ResolvesFor(p, t) == ExactFor(p, t) \/ AliasOnlyFor(p, t)

\* The record of candidate i with its fields taken from the line of tokens t.
RecordFrom(i, t) == Populate(NewDetails(storages[i][1], storages[i][2]), t)

Unpopulated(d) ==
    d.total_gb = NA /\ d.used_gb = NA /\ d.available_gb = NA /\ d.percentage_used = NA

Populated(d) ==
    d.total_gb # NA /\ d.used_gb # NA /\ d.available_gb # NA /\ d.percentage_used # NA

\* The candidates whose record has been produced, after a df that succeeded.
Resolved == IF success_df THEN 1..Len(all_storage_details) ELSE {}

\* C1: whenever the df output holds a valid line whose mount point equals the
\* volume path and also a valid line that matches only through the alias
\* set, the volume's fields are those of an exact-match line.
C1_ExactMatchPrecedence ==
    Resolved # {} =>
        LET ts == OutputTokens
        IN  \A i \in Resolved :
                LET p == storages[i][2]
                IN  (/\ \E k \in 1..Len(ts) : ExactFor(p, ts[k])
                     /\ \E k \in 1..Len(ts) : AliasOnlyFor(p, ts[k]))
                    => \E k \in 1..Len(ts) :
                          ExactFor(p, ts[k]) /\ all_storage_details[i] = RecordFrom(i, ts[k])

\* C4: a line with fewer than six tokens, or a matching line with a column
\* that is no integer, is passed over and the scan goes on: the fields of a
\* volume are "N/A" exactly when no valid line anywhere in the output
\* matches its path, exactly or through the alias set; otherwise all four
\* fields are set.
C4_MalformedLinesSkipped ==
    Resolved # {} =>
        LET ts == OutputTokens
        IN  \A i \in Resolved :
                IF \E k \in 1..Len(ts) : ResolvesFor(storages[i][2], ts[k])
                THEN Populated(all_storage_details[i])
                ELSE Unpopulated(all_storage_details[i])

\* A volume resolved from a line that follows a short line and a matching
\* line with a bad column.
C4_Witness ==
    /\ Resolved # {}
    /\ LET ts == OutputTokens
       IN  \E i \in Resolved :
               LET p == storages[i][2]
               IN  /\ Len(ts) = 3
                   /\ Len(ts[1]) \in 1..5
                   /\ Len(ts[2]) >= 6 /\ MountOf(ts[2]) = p /\ ~ValidLine(ts[2])
                   /\ ResolvesFor(p, ts[3])
                   /\ all_storage_details[i] = RecordFrom(i, ts[3])

\* The df call has returned with success = false.
DfFailed == pc \in {"gsd_loop", "gsd_done"} /\ Len(cmds) = 1 /\ ~success_df

\* C5: after a df call that fails, the records produced so far are those of
\* the candidates in candidate order with all four capacity fields "N/A",
\* and at the return there is one record per candidate.
C5_GracefulDegradation ==
    DfFailed =>
        /\ Len(all_storage_details) = (IF pc = "gsd_done" THEN Len(storages) ELSE vol_idx)
        /\ \A i \in 1..Len(all_storage_details) :
              all_storage_details[i] = NewDetails(storages[i][1], storages[i][2])

\* A survey of two candidates has returned after a df that failed although
\* its stdout held a report with a line for the first candidate.
C5_Witness ==
    /\ DfFailed
    /\ pc = "gsd_done"
    /\ Len(all_storage_details) = 2
    /\ \E k \in 1..Len(OutputTokens) : ResolvesFor(storages[1][2], OutputTokens[k])

\* C6: a path of the alias set resolves to the first valid line whose mount
\* point is in the alias set, whenever there is one (so /storage/emulated/0
\* resolves through a /sdcard line when no line names /storage/emulated/0),
\* and a path outside the set resolves only to a valid line that names it.
C6_AliasResolution ==
    Resolved # {} =>
        LET ts == OutputTokens
        IN  \A i \in Resolved :
                LET p == storages[i][2]
                    d == all_storage_details[i]
                    hits == {k \in 1..Len(ts) :
                                ValidLine(ts[k])
                                /\ IF p \in AliasSet THEN MountOf(ts[k]) \in AliasSet
                                                      ELSE MountOf(ts[k]) = p}
                IN  IF hits = {} THEN Unpopulated(d)
                    ELSE Populated(d) /\ d = RecordFrom(i, ts[Kth(hits, 1)])

\* /storage/emulated/0 resolved from a /sdcard line, no line naming
\* /storage/emulated/0 or /storage/emulated being in the output.
C6_Witness ==
    /\ Resolved # {}
    /\ LET ts == OutputTokens
       IN  \E i \in Resolved :
               /\ storages[i][2] = EMULATED_0
               /\ \A k \in 1..Len(ts) :
                     Len(ts[k]) >= 1 => MountOf(ts[k]) \notin {EMULATED_0, EMULATED}
               /\ \E k \in 1..Len(ts) :
                     /\ ValidLine(ts[k]) /\ MountOf(ts[k]) = SDCARD
                     /\ all_storage_details[i] = RecordFrom(i, ts[k])
               /\ Populated(all_storage_details[i])

\* The number a formatted field shows, in hundredths.
HundredthsOf(text) == DigitsVal(SelectSeq(text, LAMBDA c : c \in Digits))

\* text is digits, a point, two digits and the suffix.
IsFixed2(text, suffix) ==
    LET n == Len(text) - Len(suffix)
    IN  /\ n >= 4
        /\ SubSeq(text, n + 1, Len(text)) = suffix
        /\ text[n - 2] = "."
        /\ \A k \in (1..n) \ {n - 2} : text[k] \in Digits

\* C8: for the line a volume is resolved from, a total of 0 KB gives
\* "0.00%" with the three GB fields set, and a positive total gives the
\* hundredth of a percent nearest to used/total*100.
C8_PercentageGuard ==
    Resolved # {} =>
        LET ts == OutputTokens
        IN  \A i \in Resolved :
                LET d == all_storage_details[i]
                    hits == {k \in 1..Len(ts) : ResolvesFor(storages[i][2], ts[k])}
                IN  hits # {} =>
                        LET t == ts[Kth(hits, 1)]
                            total == DigitsVal(t[2])
                            used == DigitsVal(t[3])
                            shown == HundredthsOf(d.percentage_used)
                            diff == shown * total - used * 10000
                        IN  /\ IsFixed2(d.percentage_used, <<"%">>)
                            /\ IsFixed2(d.total_gb, <<" ", "G", "B">>)
                            /\ IsFixed2(d.used_gb, <<" ", "G", "B">>)
                            /\ IsFixed2(d.available_gb, <<" ", "G", "B">>)
                            /\ total = 0 => d.percentage_used = <<"0", ".", "0", "0", "%">>
                            /\ total > 0 => 2 * diff <= total /\ 0 - 2 * diff <= total

\* A volume resolved from a line whose total is 0 KB.
C8_Witness ==
    /\ Resolved # {}
    /\ LET ts == OutputTokens
       IN  \E i \in Resolved :
               LET hits == {k \in 1..Len(ts) : ResolvesFor(storages[i][2], ts[k])}
               IN  /\ hits # {}
                   /\ DigitsVal(ts[Kth(hits, 1)][2]) = 0
                   /\ all_storage_details[i].percentage_used = <<"0", ".", "0", "0", "%">>

-----------------------------------------------------------------------------
(* get_top_large_folders                                                   *)

\* os.path.join(path, item_name).replace("\\", "/")
JoinPath(p, item_name) ==
    LET joined ==
            IF item_name # <<>> /\ Head(item_name) = "/" THEN item_name
            ELSE IF p = <<>> \/ p[Len(p)] = "/" THEN p \o item_name
            ELSE p \o <<"/">> \o item_name
    IN  [k \in 1..Len(joined) |-> IF joined[k] = "\\" THEN "/" ELSE joined[k]]

\* Line 181: the entries kept from the listing.
Retained(item_name) == item_name # <<>> /\ item_name \notin {<<".">>, <<".", ".">>}

\* Lines 178-184: the child paths built from the listing.
PotentialItems(p, out) ==
    LET names == [k \in 1..Len(SplitLines(out)) |-> Strip(SplitLines(out)[k])]
        kept == SelectSeq(names, Retained)
    IN  [k \in 1..Len(kept) |-> JoinPath(p, kept[k])]

\* float(text) succeeds: digits with at most one point and at least one
\* digit.  (Signs, exponents, "inf" and "nan" are outside the alphabet of
\* the sizes drawn here.)
FloatParses(text) ==
    /\ \A k \in 1..Len(text) : text[k] \in Digits \cup {"."}
    /\ Cardinality({k \in 1..Len(text) : text[k] = "."}) <= 1
    /\ \E k \in 1..Len(text) : text[k] \in Digits

\* 10^n
RECURSIVE Pow10(_)
Pow10(n) == IF n = 0 THEN 1 ELSE 10 * Pow10(n - 1)

\* float(text) as the exact fraction num/den.
FloatOf(text) ==
    LET point == {k \in 1..Len(text) : text[k] = "."}
        decimals == IF point = {} THEN 0 ELSE Len(text) - Kth(point, 1)
    IN  [num |-> DigitsVal(SelectSeq(text, LAMBDA c : c \in Digits)), den |-> Pow10(decimals)]

\* A unit table that reads the letter as written, without upper().
MutUnitOf(size_str) ==
    IF size_str # <<>> /\ IsAlpha(size_str[Len(size_str)])
    THEN size_str[Len(size_str)]
    ELSE ""

\* Line 203: the unit letter, upper-cased, or '' when the string does not
\* end with a letter.
UnitOf(size_str) ==
    IF size_str # <<>> /\ IsAlpha(size_str[Len(size_str)])
    THEN Upper(size_str[Len(size_str)])
    ELSE ""

\* Line 202: the text handed to float().
NumberPart(size_str) ==
    IF size_str # <<>> /\ IsAlpha(size_str[Len(size_str)])
    THEN SubSeq(size_str, 1, Len(size_str) - 1)
    ELSE size_str

\* Lines 205-214: size_bytes as the exact value num/den * 2^exp.  An
\* unrecognised unit gives 0.
SizeBytes(size_str) ==
    LET size_val == FloatOf(NumberPart(size_str))
        unit == UnitOf(size_str)
    IN  CASE unit = "G" -> [num |-> size_val.num, den |-> size_val.den, exp |-> 30]
          [] unit = "M" -> [num |-> size_val.num, den |-> size_val.den, exp |-> 20]
          [] unit = "K" -> [num |-> size_val.num, den |-> size_val.den, exp |-> 10]
          [] unit = "B" \/ unit = "" -> [num |-> size_val.num, den |-> size_val.den, exp |-> 0]
          [] OTHER -> [num |-> 0, den |-> 1, exp |-> 0]

\* 2^e for the exponents of the unit table.
Pow2(e) == CASE e = 0 -> 1 [] e = 10 -> 1024 [] e = 20 -> 1048576 [] e = 30 -> 1073741824

\* a >= b for two sizes num/den * 2^exp, computed without leaving 32 bits.
\* (Sizes of a few characters that differ as fractions differ as floats.)
SizeGeq(a, b) ==
    LET l == a.num * b.den
        r == b.num * a.den
    IN  IF a.exp >= b.exp
        THEN LET d == Pow2(a.exp - b.exp) IN l >= (r + d - 1) \div d
        ELSE LET d == Pow2(b.exp - a.exp) IN l \div d >= r

\* Lines 195-218: the entry a du result adds to folder_sizes_raw, as a
\* sequence of zero or one tuple.
EntryOf(res, item_path) ==
    IF ~(res.success /\ res.stdout # <<>>) THEN <<>>
    ELSE LET parts == SplitOn(Strip(res.stdout), "\t")
         IN  IF Len(parts) # 2 THEN <<>>
             ELSE LET size_str == Strip(parts[1])
                  IN  IF FloatParses(NumberPart(size_str))
                      THEN <<[size_bytes |-> SizeBytes(size_str),
                              display |-> size_str \o <<" ">> \o item_path]>>
                      ELSE <<>>

\* One element put in its place in a list ordered by decreasing size, behind
\* the elements of the same size.
RECURSIVE InsertDesc(_, _)
InsertDesc(sorted, e) ==
    IF sorted = <<>> THEN <<e>>
    ELSE IF SizeGeq(Head(sorted).size_bytes, e.size_bytes)
         THEN <<Head(sorted)>> \o InsertDesc(Tail(sorted), e)
         ELSE <<e>> \o sorted

\* Line 224: list.sort(key=size, reverse=True), a stable sort.
RECURSIVE SortDesc(_)
SortDesc(raw) ==
    IF raw = <<>> THEN <<>>
    ELSE InsertDesc(SortDesc(SubSeq(raw, 1, Len(raw) - 1)), raw[Len(raw)])

\* A slice that keeps one entry too many.
MutTopSlice(sorted, n) ==
    LET m == IF n + 1 < Len(sorted) THEN n + 1 ELSE Len(sorted)
    IN  [k \in 1..m |-> sorted[k].display]

\* Line 227: the display strings of folder_sizes_raw[:count], count >= 0.
TopSlice(sorted, n) ==
    LET m == IF n < Len(sorted) THEN n ELSE Len(sorted)
    IN  [k \in 1..m |-> sorted[k].display]

\* What ls -aF can print for an entry: the dot entries plain or marked as
\* directories, a child directory, a blank line.
LsDot == <<".">>
LsDotDot == <<".", ".">>
LsDotDir == <<".", "/">>
LsDotDotDir == <<".", ".", "/">>
LsChildDir == <<"a", "/">>
LsBlank == <<>>

LsLineSet == {LsDot, LsDotDot, LsDotDir, LsDotDotDir, LsChildDir, LsBlank}

MaxLsLines == 3
MaxCount == 2

\* A listing names each entry once; blank lines may repeat.
Listings ==
    {ls \in SeqsUpTo(LsLineSet, MaxLsLines) :
        \A i, j \in 1..Len(ls) : (i # j /\ ls[i] # LsBlank) => ls[i] # ls[j]}

LsEnvs ==
    {LaunchEnv(TRUE, FALSE, TRUE, 0, Report(ls), "") : ls \in Listings}
    \cup {LaunchEnv(TRUE, FALSE, TRUE, 1, <<>>, "ls: Permission denied"),
          LaunchEnv(TRUE, FALSE, TRUE, 1, Report(<<LsChildDir>>), "ls: Permission denied"),
          LaunchEnv(TRUE, FALSE, FALSE, 0, <<>>, "")}

\* The sizes du -sh reports here, and one it cannot have meant.
SizeStrings ==
    {<<"1", "0", "M">>, <<"1", "G">>, <<"5", "0", "0", "K">>, <<"1", ".", "5", "g">>,
     <<"1", "0">>, <<"7", "B">>, <<"2", "X">>, <<"G">>}

\* The line du -sh prints for a path.
DuLine(size_str, item_path) == size_str \o <<"\t">> \o item_path \o <<"\n">>

\* What a du call can meet: a summary for each size, a line of three
\* fields, and a failure that still left a summary on stdout.
DuEnvs(item_path) ==
    {LaunchEnv(TRUE, FALSE, TRUE, 0, DuLine(sz, item_path), "") : sz \in SizeStrings}
    \cup {LaunchEnv(TRUE, FALSE, TRUE, 0,
                    <<"1", "G", "\t">> \o item_path \o <<"\t", "x", "\n">>, ""),
          LaunchEnv(TRUE, FALSE, TRUE, 1, DuLine(<<"1", "G">>, item_path),
                    "du: Permission denied")}

\* What du meets in a survey: a summary, or a refusal.
SurveyDuEnvs(item_path) ==
    {LaunchEnv(TRUE, FALSE, TRUE, 0, DuLine(<<"1", "G">>, item_path), ""),
     LaunchEnv(TRUE, FALSE, TRUE, 1, <<>>, "du: Permission denied")}

TopPaths == {SDCARD}

InitTop == pc = "top_call" /\ survey_pc = "none" /\ InitCommon

\* Lines 168-188: the call, the listing and the child paths; a failed or
\* empty listing returns [].
ListFolderIn(paths, counts, envs) ==
    /\ pc = "top_call"
    /\ \E p \in paths, n \in counts, env \in envs :
          LET res == run_adb_command(env)
              items == IF res.success THEN PotentialItems(p, res.stdout) ELSE <<>>
          IN  /\ path' = p
              /\ count' = n
              /\ launch' = env
              /\ outcome' = SubprocessRun(env)
              /\ result' = res
              /\ success_ls' = res.success
              /\ stdout_ls' = res.stdout
              /\ cmds' = Append(cmds, Cmd("adb shell ls -aF", p))
              /\ potential_items' = items
              /\ pc' = IF items = <<>> THEN "top_done" ELSE "top_loop"
    /\ item_idx' = 0
    /\ folder_sizes_raw' = <<>>
    /\ top_result' = <<>>
    /\ du_seen' = <<>>
    /\ UNCHANGED <<dfVars, surveyVars>>

ListFolder == ListFolderIn(TopPaths, 0..MaxCount, LsEnvs)

\* Line 193: the item the loop is at.
MutItemAt(items, idx) == items[Len(items) - idx]

ItemAt(items, idx) == items[idx + 1]

\* Lines 193-227: one iteration of the loop over potential_items; after the
\* last one the list is sorted and its first count entries are returned.
\* The du call meets the survey's environments when made from the survey.
MeasureItemIn(survey) ==
    /\ pc = "top_loop"
    /\ item_idx < Len(potential_items)
    /\ LET item_path == ItemAt(potential_items, item_idx)
       IN  \E env \in (IF survey THEN SurveyDuEnvs(item_path) ELSE DuEnvs(item_path)) :
              LET res == run_adb_command(env)
                  raw == folder_sizes_raw \o EntryOf(res, item_path)
                  last == item_idx + 1 = Len(potential_items)
              IN  /\ launch' = env
                  /\ outcome' = SubprocessRun(env)
                  /\ result' = res
                  /\ du_seen' = Append(du_seen, res)
                  /\ cmds' = Append(cmds, Cmd("adb shell du -sh", item_path))
                  /\ folder_sizes_raw' = IF last THEN SortDesc(raw) ELSE raw
                  /\ top_result' = IF last THEN TopSlice(SortDesc(raw), count) ELSE <<>>
                  /\ pc' = IF last THEN "top_done" ELSE "top_loop"
    /\ item_idx' = item_idx + 1
    /\ UNCHANGED <<dfVars, surveyVars, path, count, stdout_ls, success_ls, potential_items>>

MeasureItem == MeasureItemIn(FALSE)

NextTop == ListFolder \/ MeasureItem

SpecTop == InitTop /\ [][NextTop]_vars

-----------------------------------------------------------------------------
(* Properties of get_top_large_folders                                     *)

DuTool == "adb shell du -sh"

\* The path without its trailing slashes.
NoTrailingSlash(p) ==
    LET trail == {i \in 1..Len(p) : \A j \in i..Len(p) : p[j] = "/"}
    IN  SubSeq(p, 1, Len(p) - Cardinality(trail))

\* The path names the '.' or '..' entry of a directory.
RefersToDot(p) ==
    LET comps == SplitOn(NoTrailingSlash(p), "/")
    IN  comps[Len(comps)] \in {<<".">>, <<".", ".">>}

\* The two halves of a display string "<size> <path>".
SizeOfDisplay(display) == SplitOn(display, " ")[1]
PathOfDisplay(display) == SplitOn(display, " ")[2]

\* C2: no du command is issued for, and no returned item refers to, the '.'
\* or '..' entry of the path, whatever the listing holds.
C2_NoDotEntries ==
    /\ \A k \in 1..Len(cmds) : cmds[k].tool = DuTool => ~RefersToDot(cmds[k].arg)
    /\ \A k \in 1..Len(top_result) : ~RefersToDot(PathOfDisplay(top_result[k]))

\* The listing holds nothing but blank lines and the '.' and '..' entries,
\* as ls prints them with or without the directory mark.
OnlyDotsAndBlanks(out) ==
    \A k \in 1..Len(SplitLines(out)) :
        Strip(SplitLines(out)[k]) \in {<<>>, LsDot, LsDotDot, LsDotDir, LsDotDotDir}

\* C9: when the listing call fails, or its output holds no entry other than
\* blank lines, '.' and '..', the function returns the empty list without
\* issuing any du command.
C9_NoOpListing ==
    (pc # "top_call" /\ (~success_ls \/ OnlyDotsAndBlanks(stdout_ls))) =>
        /\ pc = "top_done"
        /\ top_result = <<>>
        /\ \A k \in 1..Len(cmds) : cmds[k].tool # DuTool

\* The du result of item k is a success whose output is two tab-separated
\* fields with a size whose numeric prefix parses.
DuParsed(k) ==
    /\ du_seen[k].success
    /\ LET parts == SplitOn(Strip(du_seen[k].stdout), "\t")
       IN  Len(parts) = 2 /\ FloatParses(NumberPart(Strip(parts[1])))

DuSize(k) == Strip(SplitOn(Strip(du_seen[k].stdout), "\t")[1])
DuDisplay(k) == DuSize(k) \o <<" ">> \o potential_items[k]

\* C3: the returned list has length min(count, number of parsed entries),
\* holds only parsed entries, each once, in order of non-increasing size,
\* and no parsed entry left out is larger than one returned.
C3_TopNTruncation ==
    pc = "top_done" =>
        LET parsed == {k \in 1..Len(du_seen) : DuParsed(k)}
            m == IF count < Cardinality(parsed) THEN count ELSE Cardinality(parsed)
            chosen == {k \in parsed : \E j \in 1..Len(top_result) : top_result[j] = DuDisplay(k)}
        IN  /\ Len(top_result) = m
            /\ Cardinality(chosen) = m
            /\ \A j \in 1..Len(top_result) : \E k \in parsed : top_result[j] = DuDisplay(k)
            /\ \A j \in 1..(Len(top_result) - 1) :
                  SizeGeq(SizeBytes(SizeOfDisplay(top_result[j])),
                          SizeBytes(SizeOfDisplay(top_result[j + 1])))
            /\ \A k \in parsed \ chosen : \A c \in chosen :
                  SizeGeq(SizeBytes(DuSize(c)), SizeBytes(DuSize(k)))

\* Three entries of three different sizes were parsed and count is 2: two
\* of the three are returned, the larger first.
C3_Witness ==
    /\ pc = "top_done"
    /\ count = 2
    /\ Len(du_seen) = 3
    /\ \A k \in 1..3 : DuParsed(k)
    /\ \A k, l \in 1..3 : k # l => ~SizeGeq(SizeBytes(DuSize(k)), SizeBytes(DuSize(l)))
                                   \/ ~SizeGeq(SizeBytes(DuSize(l)), SizeBytes(DuSize(k)))
    /\ Len(top_result) = 2
    /\ ~SizeGeq(SizeBytes(SizeOfDisplay(top_result[2])), SizeBytes(SizeOfDisplay(top_result[1])))

\* The sort key the unit table gives a size string: prefix * 2^30 for G,
\* 2^20 for M, 2^10 for K, 1 for B or no letter, in either case of the
\* letter, and 0 for any other letter.
TableKey(size_str) ==
    LET c == IF size_str = <<>> THEN "" ELSE size_str[Len(size_str)]
        lettered == c \in UpperLetters \cup LowerLetters
        prefix == IF lettered THEN SubSeq(size_str, 1, Len(size_str) - 1) ELSE size_str
        point == {k \in 1..Len(prefix) : prefix[k] = "."}
        whole == IF point = {} THEN prefix ELSE SubSeq(prefix, 1, Kth(point, 1) - 1)
        frac == IF point = {} THEN <<>> ELSE SubSeq(prefix, Kth(point, 1) + 1, Len(prefix))
        n == DigitsVal(whole \o frac)
        d == Pow10(Len(frac))
    IN  IF c \in {"G", "g"} THEN [num |-> n, den |-> d, exp |-> 30]
        ELSE IF c \in {"M", "m"} THEN [num |-> n, den |-> d, exp |-> 20]
        ELSE IF c \in {"K", "k"} THEN [num |-> n, den |-> d, exp |-> 10]
        ELSE IF c \in {"B", "b"} \/ ~lettered THEN [num |-> n, den |-> d, exp |-> 0]
        ELSE [num |-> 0, den |-> 1, exp |-> 0]

SameSize(a, b) == SizeGeq(a, b) /\ SizeGeq(b, a)

KnownUnit(size_str) ==
    LET c == size_str[Len(size_str)]
    IN  c \notin UpperLetters \cup LowerLetters \/ c \in {"G", "g", "M", "m", "K", "k", "B", "b"}

\* C7: every entry carries the key of the unit table; an entry with another
\* trailing letter is kept with key 0; the sorted list is in non-increasing
\* order of the table keys, so that 10M, 1G, 500K come out as 1G, 10M, 500K
\* and the entries of key 0 stand behind every entry of positive size; the
\* result is the head of that list.
C7_SizeUnitNormalization ==
    LET raw == folder_sizes_raw
        sizes == [k \in 1..Len(raw) |-> SizeOfDisplay(raw[k].display)]
    IN  /\ \A k \in 1..Len(raw) : SameSize(raw[k].size_bytes, TableKey(sizes[k]))
        /\ \A k \in 1..Len(raw) : ~KnownUnit(sizes[k]) => raw[k].size_bytes.num = 0
        /\ \A k \in 1..Len(du_seen) :
              (DuParsed(k) /\ ~KnownUnit(DuSize(k))) =>
                  \E j \in 1..Len(raw) : raw[j].display = DuDisplay(k)
        /\ pc = "top_done" =>
              /\ \A k \in 1..(Len(raw) - 1) : SizeGeq(TableKey(sizes[k]), TableKey(sizes[k + 1]))
              /\ \A i, j \in 1..Len(raw) :
                    (TableKey(sizes[i]).num = 0 /\ TableKey(sizes[j]).num > 0) => j < i
              /\ {sizes[k] : k \in 1..Len(raw)} = {<<"1", "0", "M">>, <<"1", "G">>, <<"5", "0", "0", "K">>}
                    /\ Len(raw) = 3
                 => sizes = <<<<"1", "G">>, <<"1", "0", "M">>, <<"5", "0", "0", "K">>>>
              /\ Len(top_result) = (IF count < Len(raw) THEN count ELSE Len(raw))
              /\ \A k \in 1..Len(top_result) : top_result[k] = raw[k].display

\* du reported 10M, 1G and 500K, in that order, and the list reads 1G, 10M,
\* 500K.
C7_Witness ==
    /\ pc = "top_done"
    /\ Len(du_seen) = 3
    /\ \A k \in 1..3 : DuParsed(k)
    /\ <<DuSize(1), DuSize(2), DuSize(3)>> = <<<<"1", "0", "M">>, <<"1", "G">>, <<"5", "0", "0", "K">>>>
    /\ [k \in 1..3 |-> SizeOfDisplay(folder_sizes_raw[k].display)]
          = <<<<"1", "G">>, <<"1", "0", "M">>, <<"5", "0", "0", "K">>>>

-----------------------------------------------------------------------------
(* list_connected_devices_and_details: the storage part of the survey      *)

INTERNAL_STORAGE == "Internal Storage"

\* A dict assignment d[key] = store; the dict keeps insertion order and an
\* assignment to a key already present keeps that key's position.
DictSet(d, key, store) ==
    IF \E k \in 1..Len(d) : d[k].key = key
    THEN [k \in 1..Len(d) |-> IF d[k].key = key THEN [key |-> key, store |-> store] ELSE d[k]]
    ELSE Append(d, [key |-> key, store |-> store])

\* Lines 376-385: the key a store is filed under.  The branch for names
\* holding "SD Card" or "External Storage" and the final else branch make
\* the same assignment.
ConsolidateKey(store, found) ==
    IF store.path = EMULATED_0 THEN INTERNAL_STORAGE
    ELSE IF store.path = EMULATED /\ ~found THEN INTERNAL_STORAGE
    ELSE store.name

\* Line 399: count=5.
SurveyCount == 5

\* The candidates of a survey: the internal volume under either path and
\* under two display names, and a removable card.
SurveyCandidates ==
    {<<INTERNAL_STORAGE, EMULATED_0>>, <<INTERNAL_STORAGE, EMULATED>>,
     <<"Phone", EMULATED>>, <<"SD Card", EXT_CARD>>}

SurveyStorageLists ==
    {st \in SeqsUpTo(SurveyCandidates, MaxVolumes) :
        \A i, j \in 1..Len(st) : i # j => st[i] # st[j]}

\* What df meets in a survey: a report of the internal volume alone, or a
\* device that went offline.
SurveyDfEnvs ==
    {LaunchEnv(TRUE, FALSE, TRUE, 0, Report(<<DfEmulated0>>), ""),
     LaunchEnv(TRUE, FALSE, TRUE, 1, <<>>, "error: device offline")}

LsFile == <<"b">>

\* What ls meets in a survey: two children, or a refusal.
SurveyLsEnvs ==
    {LaunchEnv(TRUE, FALSE, TRUE, 0, Report(<<LsChildDir, LsFile>>), ""),
     LaunchEnv(TRUE, FALSE, TRUE, 1, <<>>, "ls: Permission denied")}

\* Line 369: the survey is at its call of get_storage_details.
InitSurvey == pc = "gsd_call" /\ survey_pc = "storage" /\ InitCommon

SurveyFetchStorages == survey_pc = "storage" /\ FetchStoragesOf(SurveyStorageLists)

SurveyRunDf == survey_pc = "storage" /\ RunDfIn(SurveyDfEnvs)

SurveyScanStorage == survey_pc = "storage" /\ ScanStorage

\* Lines 369-385: one iteration of the consolidation loop over the list
\* get_storage_details returned; after the last one the display begins.
Consolidate ==
    /\ \/ survey_pc = "storage" /\ pc = "gsd_done"
       \/ survey_pc = "consolidate"
    /\ store_idx < Len(all_storage_details)
    /\ LET store == all_storage_details[store_idx + 1]
           key == ConsolidateKey(store, internal_storage_0_found)
           last == store_idx + 1 = Len(all_storage_details)
       IN  /\ consolidated_storage_info' = DictSet(consolidated_storage_info, key, store)
           /\ internal_storage_0_found' =
                 (internal_storage_0_found \/ store.path = EMULATED_0)
           /\ survey_pc' = IF last THEN "display" ELSE "consolidate"
           /\ pc' = IF last THEN "top_call" ELSE pc
    /\ store_idx' = store_idx + 1
    /\ show_idx' = 0
    /\ UNCHANGED <<cmds, runVars, dfVars, topVars>>

\* Lines 388, 407-408: nothing to display.
NoStorageDetails ==
    /\ survey_pc = "storage"
    /\ pc = "gsd_done"
    /\ all_storage_details = <<>>
    /\ survey_pc' = "done"
    /\ UNCHANGED <<pc, cmds, runVars, dfVars, topVars, consolidated_storage_info,
                   internal_storage_0_found, store_idx, show_idx>>

\* Lines 390-399: the call of get_top_large_folders for the store the
\* display loop is at.
ShowStorage ==
    /\ survey_pc = "display"
    /\ ListFolderIn({consolidated_storage_info[show_idx + 1].store.path},
                    {SurveyCount}, SurveyLsEnvs)

SurveyMeasureItem == survey_pc = "display" /\ MeasureItemIn(TRUE)

\* Lines 400-406: the items are printed and the display loop moves on.
NextShown ==
    /\ survey_pc = "display"
    /\ pc = "top_done"
    /\ show_idx' = show_idx + 1
    /\ IF show_idx + 1 < Len(consolidated_storage_info)
       THEN pc' = "top_call" /\ survey_pc' = survey_pc
       ELSE pc' = pc /\ survey_pc' = "done"
    /\ UNCHANGED <<cmds, runVars, dfVars, topVars, consolidated_storage_info,
                   internal_storage_0_found, store_idx>>

NextSurvey ==
    \/ SurveyFetchStorages
    \/ SurveyRunDf
    \/ SurveyScanStorage
    \/ Consolidate
    \/ NoStorageDetails
    \/ ShowStorage
    \/ SurveyMeasureItem
    \/ NextShown

SpecSurvey == InitSurvey /\ [][NextSurvey]_vars

-----------------------------------------------------------------------------
(* Properties of the survey                                                *)

Consolidated == survey_pc \in {"display", "done"} /\ all_storage_details # <<>>

\* The detail is among the displayed records.
Displayed(d) ==
    \E k \in 1..Len(consolidated_storage_info) : consolidated_storage_info[k].store = d

\* C12: once the consolidation is over, if a detail with path
\* /storage/emulated/0 is in the list then the record under the key
\* "Internal Storage" is such a detail, and a /storage/emulated detail is
\* among the displayed records only if no /storage/emulated/0 detail stands
\* before it in the list.
C12_InternalConsolidation ==
    Consolidated =>
        LET ds == all_storage_details
        IN  /\ (\E i \in 1..Len(ds) : ds[i].path = EMULATED_0) =>
                  \E k \in 1..Len(consolidated_storage_info) :
                      /\ consolidated_storage_info[k].key = INTERNAL_STORAGE
                      /\ consolidated_storage_info[k].store.path = EMULATED_0
            /\ \A i \in 1..Len(ds) :
                  (ds[i].path = EMULATED /\ Displayed(ds[i])) =>
                      ~\E j \in 1..(i - 1) : ds[j].path = EMULATED_0

DfTool == "adb shell df -k"
LsTool == "adb shell ls -aF"

\* The positions of the commands of a tool in the trace.
Issued(tool) == {i \in 1..Len(cmds) : cmds[i].tool = tool}

\* The position of the latest listing command.
LastLs == CHOOSE i \in Issued(LsTool) : \A j \in Issued(LsTool) : j <= i

\* The calls of get_top_large_folders begun so far.
TopCalls ==
    IF survey_pc = "display" /\ pc \in {"top_loop", "top_done"} THEN show_idx + 1
    ELSE show_idx

\* The caller holds the result of the latest command: nothing is in flight.
LatestConsumed ==
    cmds # <<>> =>
        LET c == cmds[Len(cmds)]
        IN  /\ outcome = SubprocessRun(launch)
            /\ result = ReturnOf(outcome)
            /\ c.tool = DfTool => (success_df = result.success /\ stdout_df = result.stdout)
            /\ c.tool = LsTool => (success_ls = result.success /\ stdout_ls = result.stdout)
            /\ c.tool = DuTool => (du_seen # <<>> /\ du_seen[Len(du_seen)] = result)

\* C11: in a survey over a non-empty list of candidates the trace of remote
\* commands is one df command, then for each call of get_top_large_folders
\* one listing command followed by one du command for each retained child,
\* in listing order; after every step the result of the latest command is
\* held by its caller, so no command is outstanding when the next is issued.
C11_CommandTrace ==
    /\ Cardinality(Issued(DfTool)) <= 1
    /\ (storages # <<>> /\ (pc \in {"gsd_loop", "gsd_done"} \/ survey_pc # "storage")) =>
          /\ Cardinality(Issued(DfTool)) = 1
          /\ cmds[1] = Cmd(DfTool, <<>>)
    /\ \A i \in 1..Len(cmds) : cmds[i].tool \in {DfTool, LsTool, DuTool}
    /\ Cardinality(Issued(LsTool)) = TopCalls
    /\ (survey_pc = "display" /\ pc \in {"top_loop", "top_done"}) =>
          /\ cmds[LastLs] = Cmd(LsTool, path)
          /\ path = consolidated_storage_info[show_idx + 1].store.path
          /\ potential_items = (IF success_ls THEN PotentialItems(path, stdout_ls) ELSE <<>>)
          /\ Len(cmds) = LastLs + item_idx
          /\ \A k \in 1..item_idx : cmds[LastLs + k] = Cmd(DuTool, potential_items[k])
          /\ Len(du_seen) = item_idx
          /\ pc = "top_done" => item_idx = Len(potential_items)
    /\ survey_pc = "done" =>
          /\ Cardinality(Issued(LsTool)) = Len(consolidated_storage_info)
          /\ storages # <<>> => Len(cmds) >= 1 + Len(consolidated_storage_info)
    /\ LatestConsumed

\* A finished survey of two candidates, one of which df did not resolve,
\* with two children measured under each displayed store: seven commands.
C11_Witness ==
    /\ survey_pc = "done"
    /\ Len(storages) = 2
    /\ success_df
    /\ \E i \in 1..2 : all_storage_details[i].total_gb = NA
    /\ \E i \in 1..2 : all_storage_details[i].total_gb # NA
    /\ Len(consolidated_storage_info) = 2
    /\ Len(cmds) = 7

====
